---- MODULE Spec2Model ----
(***************************************************************************)
(* Model of the shadowportal middleware client (src/utils/zfs.py,          *)
(* TrueNASClient), of the request wrapper with_truenas_client and of the   *)
(* job event stream job_events.gen (src/app.py).                           *)
(*                                                                         *)
(* One client object exists at a time; it is used by one caller.  Every    *)
(* blocking read of the socket is one step: the environment chooses the    *)
(* frame the read returns, or makes the read (or a send) raise.            *)
(***************************************************************************)
EXTENDS Integers, Sequences, FiniteSets, TLC

\* ---------------------------------------------------------------- bounds
MaxId == 4          \* largest request id the model lets a client allocate
MaxSockets == 2     \* sockets one client object may open

\* ---------------------------------------------------------------- frames
\* A received frame, after json.loads.  id 0 stands for "no id key" (request
\* ids start at 1, so 0 equals no expected id).  result and error are tokens
\* for the JSON value under the key.
Frame(m, i, r, e, c, f, s) ==
    [msg |-> m, id |-> i, result |-> r, error |-> e,
     collection |-> c, fid |-> f, state |-> s]

NoFrame == Frame("none", 0, "null", "absent", "none", "none", "none")
PingFrame == Frame("ping", 0, "null", "absent", "none", "none", "none")
ConnectedFrame == Frame("connected", 0, "null", "absent", "none", "none", "none")
FailedFrame == Frame("failed", 0, "null", "absent", "none", "none", "none")

\* JSON values a result key may hold: true, false, null, 1, "true", a job
\* object, a list with one job object, an empty list.
ResultVals == {"true", "false", "null", "int1", "strtrue",
               "job_running", "job_success", "joblist1", "joblist0"}
\* error key: absent, null, or an error object
ErrorVals == {"absent", "null", "err"}

ResultFrames ==
    {Frame("result", i, r, e, "none", "none", "none") :
        i \in 1..MaxId, r \in ResultVals, e \in ErrorVals}

EventFrames ==
    {Frame("changed", 0, "null", "absent", c, f, s) :
        c \in {"core.get_jobs", "other"}, f \in {"job", "otherjob"},
        s \in {"RUNNING", "SUCCESS"}}

RecvFrames == {PingFrame, ConnectedFrame, FailedFrame} \cup ResultFrames \cup EventFrames

\* A sent frame.  The "id" key of a method frame holds a request id (id); the
\* "id" key of a sub/unsub frame holds the subscription id (sub).
Sent(m, i, s, meth, w) == [msg |-> m, id |-> i, sub |-> s, method |-> meth, sock |-> w]

\* outcome of an operation: st is "ok" or "err"; id is the request id it used
Res(o, s, v, i) == [op |-> o, st |-> s, val |-> v, id |-> i]
NoRes == Res("none", "none", "none", 0)

\* ---------------------------------------------------------------- state
VARIABLES
    cfg,        \* settings: TRUENAS_URL and TRUENAS_API_KEY
    ws,         \* self.ws: 0 is None, otherwise the socket
    authed,     \* self.authed
    idCounter,  \* self._id
    cpc,        \* where the client blocks: idle, handshake, login, call
    expId,      \* expected_id of the pending _recv_until (0 is None)
    nsock,      \* sockets this client object has opened so far
    closed,     \* closed[s]: how many times ws.close() ran on socket s
    allocated,  \* ids _next_id has returned on this client object
    mode,       \* who drives the client: none, direct, wrap, gen
    fpc,        \* position of the driver
    yielded,    \* message the stream offers at its yield ("none" state: none)
    act,        \* the method this step ran
    inp,        \* the frame this step read (NoFrame: none)
    out,        \* the frames this step sent
    res         \* outcome of the operation that finished in this step

\* state of the restore and path operations
VARIABLES
    fs,         \* the symbolic links of the container's file system
    pop,        \* the path operation this step ran
    pin,        \* its arguments
    pres,       \* its outcome
    copy        \* the filesystem.copy request it sent

restoreVars == <<fs, pop, pin, pres, copy>>

\* state of the service object (ZfsService) and of its operations
VARIABLES
    snapshot_cache, \* self._snapshot_cache: key -> (ts, snaps), or NoEntry
    now,            \* time.time(), in seconds
    changed,        \* datasets rolled back or cloned since the bulk snapshot
                    \* listing was last fetched from the backend
    listed,         \* listed[d]: when list_snapshots(d) last returned, while
                    \* no rollback or clone of d followed (NoTime: never)
    sop,            \* the service operation this step ran
    sin,            \* its arguments
    sout            \* its outcome

serviceVars == <<snapshot_cache, now, changed, listed, sop, sin, sout>>

\* state of the web session and of the request handlers
VARIABLES
    session,    \* session["role"]: "none" (no role), "viewer" or "admin"
    route,      \* the handler this step ran
    reply       \* its answer, the connections it opened, the requests it sent

handlerVars == <<session, route, reply>>

\* answer of a step that ran no handler
NoReply == [status |-> "none", connects |-> 0, sent |-> {}]
HandlerIdle == session = "none" /\ route = "none" /\ reply = NoReply

vars == <<cfg, ws, authed, idCounter, cpc, expId, nsock, closed, allocated,
          mode, fpc, yielded, act, inp, out, res, fs, pop, pin, pres, copy,
          snapshot_cache, now, changed, listed, sop, sin, sout,
          session, route, reply>>

\* arguments, outcome and request of a step that ran no path operation
NoInput == [src |-> <<>>, dst |-> <<>>, dataset |-> <<>>, snapshot |-> <<>>,
            path |-> <<>>]
NoOutcome == [st |-> "none", why |-> "none", why2 |-> "none",
              t1 |-> <<>>, t2 |-> <<>>, job |-> "none", resp |-> "none"]
NoCopy == [sent |-> FALSE, src |-> <<>>, dst |-> <<>>]
RestoreIdle ==
    /\ fs = {} /\ pop = "none" /\ pin = NoInput /\ pres = NoOutcome
    /\ copy = NoCopy

clientVars == <<ws, authed, idCounter, cpc, expId, nsock, closed, allocated>>

\* a text is the sequence of its characters
AllKey == <<"_", "_", "a", "l", "l", "_", "_">>   \* the cache key "__all__"
DsAX == <<"a", "/", "x">>
DsAY == <<"a", "/", "Y">>
DsB == <<"B">>
DatasetNames == {DsAX, DsAY, DsB}
CacheKeys == DatasetNames \cup {AllKey}

NoTime == 0 - 1
NoEntry == [present |-> FALSE, ts |-> 0, snaps |-> <<>>]
Entry(t, l) == [present |-> TRUE, ts |-> t, snaps |-> l]

\* ZfsService.__init__: an empty cache
EmptyCache == [k \in CacheKeys |-> NoEntry]

\* arguments and outcome of a step that ran no service operation
NoArgs == [dataset |-> <<>>, target |-> <<>>, datasets |-> <<>>]
NoReturn == [st |-> "none", queries |-> 0, found |-> "none", value |-> <<>>]
ServiceIdle ==
    /\ snapshot_cache = EmptyCache /\ now = 0 /\ changed = {}
    /\ listed = [d \in DatasetNames |-> NoTime]
    /\ sop = "none" /\ sin = NoArgs /\ sout = NoReturn

\* ---------------------------------------------------------------- helpers
\* is_configured that forgets the API key
is_configured_urlOnly(c) == c.url # "none"

\* config.is_configured: bool(settings.TRUENAS_URL and settings.TRUENAS_API_KEY)
is_configured(c) == c.url # "none" /\ c.key # ""

\* _next_id that returns the counter without advancing it
next_id_reused(i) == i

\* TrueNASClient._next_id
next_id(i) == i + 1

\* truth value of resp.get("error")
ErrorTruthy(e) == e = "err"

\* a login check by truth value instead of identity with True
ResultIsTrue_truthy(r) == r \notin {"false", "null", "joblist0"}

\* resp.get("result") is True
ResultIsTrue(r) == r = "true"

\* _recv_until without the ping branch
recv_until_noPong(f, expected_msg, expected_id) ==
    IF expected_msg # "" /\ f.msg # expected_msg THEN "skip"
    ELSE IF expected_id # 0 /\ f.id # expected_id THEN "skip"
    ELSE "return"

\* _recv_until without the id comparison
recv_until_anyId(f, expected_msg, expected_id) ==
    IF f.msg = "ping" THEN "pong"
    ELSE IF expected_msg # "" /\ f.msg # expected_msg THEN "skip"
    ELSE "return"

\* One iteration of TrueNASClient._recv_until on frame f: "pong" (answer the
\* ping and read on), "skip" (read on), "return" (hand f to the caller).
\* expected_msg "" and expected_id 0 stand for None.
recv_until(f, expected_msg, expected_id) ==
    IF f.msg = "ping" THEN "pong"
    ELSE IF expected_msg # "" /\ f.msg # expected_msg THEN "skip"
    ELSE IF expected_id # 0 /\ f.id # expected_id THEN "skip"
    ELSE "return"

\* call, subscribe and unsubscribe without their state checks
CallGuard_unchecked(w, a) == "ok"

\* The state checks that open call, subscribe and unsubscribe
CallGuard(w, a) ==
    IF w = 0 THEN "not_connected"
    ELSE IF ~a THEN "not_authenticated"
    ELSE "ok"

\* close that forgets "self.ws = None"
close_keepsSocket(w, a, cl) ==
    [ws |-> w, authed |-> FALSE,
     closed |-> IF w # 0 THEN [cl EXCEPT ![w] = @ + 1] ELSE cl]

\* close that forgets "self.authed = False"
close_keepsAuthed(w, a, cl) ==
    [ws |-> 0, authed |-> a,
     closed |-> IF w # 0 THEN [cl EXCEPT ![w] = @ + 1] ELSE cl]

\* TrueNASClient.close on fields (w, a) with close ledger cl.  An exception of
\* ws.close() is swallowed, so the outcome is the same either way.
close(w, a, cl) ==
    [ws |-> 0, authed |-> FALSE,
     closed |-> IF w # 0 THEN [cl EXCEPT ![w] = @ + 1] ELSE cl]

\* outcomes of the socket in one step: it works, the read raises, a send raises
IoOutcomes == {"ok", "recv_err", "send_err"}

\* the frames a read can return under outcome io: none when the read raises;
\* a send can only raise after a frame that makes the client send
FramesFor(io) ==
    IF io = "recv_err" THEN {NoFrame}
    ELSE IF io = "send_err" THEN {PingFrame, ConnectedFrame}
    ELSE RecvFrames

\* ---------------------------------------------------------------- client
\* TrueNASClient.__init__, with an empty socket ledger for the new object
NewClient ==
    /\ ws' = 0 /\ authed' = FALSE /\ idCounter' = 0
    /\ cpc' = "idle" /\ expId' = 0
    /\ nsock' = 0 /\ closed' = [s \in 1..MaxSockets |-> 0]
    /\ allocated' = {}

\* connect's "except Exception: self.close(); raise", on socket w
ConnectFail(e, w) ==
    LET c == close(w, authed, closed) IN
    /\ ws' = c.ws /\ authed' = c.authed /\ closed' = c.closed
    /\ cpc' = "idle" /\ expId' = 0
    /\ res' = Res("connect", "err", e, 0)

\* _authenticate up to its blocking read, called from connect
AuthenticateSend(io) ==
    IF authed THEN
        /\ res' = Res("connect", "ok", "none", 0)
        /\ cpc' = "idle" /\ expId' = 0 /\ out' = <<>>
        /\ UNCHANGED <<ws, authed, closed, idCounter, allocated>>
    ELSE IF cfg.key = "" THEN
        /\ ConnectFail("key_missing", ws)
        /\ out' = <<>>
        /\ UNCHANGED <<idCounter, allocated>>
    ELSE
        /\ idCounter < MaxId
        /\ idCounter' = next_id(idCounter)
        /\ allocated' = allocated \cup {next_id(idCounter)}
        /\ IF io = "send_err"
           THEN /\ ConnectFail("io_error", ws)
                /\ out' = <<>>
           ELSE /\ out' = <<Sent("method", next_id(idCounter), "none",
                                 "auth.login_with_api_key", ws)>>
                /\ cpc' = "login" /\ expId' = next_id(idCounter)
                /\ res' = NoRes
                /\ UNCHANGED <<ws, authed, closed>>

\* TrueNASClient.connect up to its first blocking read
ConnectStart(io) ==
    /\ cpc = "idle"
    /\ act' = "connect" /\ inp' = NoFrame
    /\ IF ws # 0 THEN
           /\ res' = Res("connect", "ok", "none", 0)
           /\ out' = <<>>
           /\ UNCHANGED clientVars
       ELSE IF ~is_configured(cfg) THEN
           /\ res' = Res("connect", "err", "not_configured", 0)
           /\ out' = <<>>
           /\ UNCHANGED clientVars
       ELSE IF cfg.url = "bad" THEN
           \* settings.TRUENAS_WS_URL raises ValueError before the try block
           /\ res' = Res("connect", "err", "value_error", 0)
           /\ out' = <<>>
           /\ UNCHANGED clientVars
       ELSE IF io = "recv_err" THEN
           \* websocket.create_connection raises: self.ws is still None
           /\ ConnectFail("io_error", ws)
           /\ out' = <<>>
           /\ UNCHANGED <<idCounter, nsock, allocated>>
       ELSE
           /\ nsock < MaxSockets
           /\ nsock' = nsock + 1
           /\ UNCHANGED <<idCounter, allocated>>
           /\ IF io = "send_err"
              THEN /\ ConnectFail("io_error", nsock + 1)
                   /\ out' = <<>>
              ELSE /\ ws' = nsock + 1
                   /\ out' = <<Sent("connect", 0, "none", "none", nsock + 1)>>
                   /\ cpc' = "handshake" /\ expId' = 0
                   /\ res' = NoRes
                   /\ UNCHANGED <<authed, closed>>

\* connect blocked in _recv_until(expected_msg="connected")
AwaitHandshake(io, f) ==
    /\ cpc = "handshake"
    /\ act' = "await_handshake"
    /\ UNCHANGED nsock
    /\ IF io = "recv_err" THEN
           /\ inp' = NoFrame /\ out' = <<>>
           /\ ConnectFail("io_error", ws)
           /\ UNCHANGED <<idCounter, allocated>>
       ELSE
           /\ inp' = f
           /\ LET d == recv_until(f, "connected", 0) IN
              IF d = "pong" THEN
                  IF io = "send_err"
                  THEN /\ out' = <<>>
                       /\ ConnectFail("io_error", ws)
                       /\ UNCHANGED <<idCounter, allocated>>
                  ELSE /\ out' = <<Sent("pong", 0, "none", "none", ws)>>
                       /\ res' = NoRes
                       /\ UNCHANGED <<ws, authed, closed, cpc, expId, idCounter, allocated>>
              ELSE IF d = "skip" THEN
                  /\ out' = <<>> /\ res' = NoRes
                  /\ UNCHANGED <<ws, authed, closed, cpc, expId, idCounter, allocated>>
              ELSE IF f.msg # "connected" THEN
                  /\ out' = <<>>
                  /\ ConnectFail("handshake_failed", ws)
                  /\ UNCHANGED <<idCounter, allocated>>
              ELSE AuthenticateSend(io)

\* _authenticate blocked in _recv_until(expected_msg="result", expected_id=login_id)
AwaitLogin(io, f) ==
    /\ cpc = "login"
    /\ act' = "await_login"
    /\ UNCHANGED <<nsock, idCounter, allocated>>
    /\ IF io = "recv_err" THEN
           /\ inp' = NoFrame /\ out' = <<>>
           /\ ConnectFail("io_error", ws)
       ELSE
           /\ inp' = f
           /\ LET d == recv_until(f, "result", expId) IN
              IF d = "pong" THEN
                  IF io = "send_err"
                  THEN /\ out' = <<>>
                       /\ ConnectFail("io_error", ws)
                  ELSE /\ out' = <<Sent("pong", 0, "none", "none", ws)>>
                       /\ res' = NoRes
                       /\ UNCHANGED <<ws, authed, closed, cpc, expId>>
              ELSE IF d = "skip" THEN
                  /\ out' = <<>> /\ res' = NoRes
                  /\ UNCHANGED <<ws, authed, closed, cpc, expId>>
              ELSE IF ErrorTruthy(f.error) THEN
                  /\ out' = <<>>
                  /\ ConnectFail("auth_error", ws)
              ELSE IF ~ResultIsTrue(f.result) THEN
                  /\ out' = <<>>
                  /\ ConnectFail("auth_rejected", ws)
              ELSE
                  /\ out' = <<>>
                  /\ authed' = TRUE
                  /\ cpc' = "idle" /\ expId' = 0
                  /\ res' = Res("connect", "ok", "none", 0)
                  /\ UNCHANGED <<ws, closed>>

\* TrueNASClient.call up to its blocking read
CallStart(io) ==
    /\ cpc = "idle"
    /\ act' = "call" /\ inp' = NoFrame
    /\ UNCHANGED <<ws, authed, nsock, closed>>
    /\ IF CallGuard(ws, authed) # "ok" THEN
           /\ res' = Res("call", "err", CallGuard(ws, authed), 0)
           /\ out' = <<>>
           /\ UNCHANGED <<idCounter, allocated, cpc, expId>>
       ELSE
           /\ idCounter < MaxId
           /\ idCounter' = next_id(idCounter)
           /\ allocated' = allocated \cup {next_id(idCounter)}
           /\ IF io = "send_err"
              THEN /\ out' = <<>>
                   /\ res' = Res("call", "err", "io_error", next_id(idCounter))
                   /\ UNCHANGED <<cpc, expId>>
              ELSE /\ out' = <<Sent("method", next_id(idCounter), "none", "call", ws)>>
                   /\ cpc' = "call" /\ expId' = next_id(idCounter)
                   /\ res' = NoRes

\* call blocked in _recv_until(expected_msg="result", expected_id=req_id)
AwaitCall(io, f) ==
    /\ cpc = "call"
    /\ act' = "await_call"
    /\ UNCHANGED <<ws, authed, nsock, closed, idCounter, allocated>>
    /\ IF io = "recv_err" THEN
           /\ inp' = NoFrame /\ out' = <<>>
           /\ res' = Res("call", "err", "io_error", expId)
           /\ cpc' = "idle" /\ expId' = 0
       ELSE
           /\ inp' = f
           /\ LET d == recv_until(f, "result", expId) IN
              IF d = "pong" THEN
                  IF io = "send_err"
                  THEN /\ out' = <<>>
                       /\ res' = Res("call", "err", "io_error", expId)
                       /\ cpc' = "idle" /\ expId' = 0
                  ELSE /\ out' = <<Sent("pong", 0, "none", "none", ws)>>
                       /\ res' = NoRes
                       /\ UNCHANGED <<cpc, expId>>
              ELSE IF d = "skip" THEN
                  /\ out' = <<>> /\ res' = NoRes
                  /\ UNCHANGED <<cpc, expId>>
              ELSE
                  /\ out' = <<>>
                  /\ cpc' = "idle" /\ expId' = 0
                  /\ res' = IF ErrorTruthy(f.error)
                            THEN Res("call", "err", "backend_error", expId)
                            ELSE Res("call", "ok", f.result, expId)

\* TrueNASClient.subscribe (m = "sub") and unsubscribe (m = "unsub"): the dict
\* literal names the key "id" twice, the second value (sub_id) is the one sent
SubUnsub(m, op, io) ==
    /\ cpc = "idle"
    /\ act' = op /\ inp' = NoFrame
    /\ UNCHANGED <<ws, authed, nsock, closed, cpc, expId>>
    /\ IF CallGuard(ws, authed) # "ok" THEN
           /\ res' = Res(op, "err", CallGuard(ws, authed), 0)
           /\ out' = <<>>
           /\ UNCHANGED <<idCounter, allocated>>
       ELSE
           /\ idCounter < MaxId
           /\ idCounter' = next_id(idCounter)
           /\ allocated' = allocated \cup {next_id(idCounter)}
           /\ IF io = "send_err"
              THEN /\ out' = <<>>
                   /\ res' = Res(op, "err", "io_error", next_id(idCounter))
              ELSE /\ out' = <<Sent(m, 0, "sub_id", "none", ws)>>
                   /\ res' = Res(op, "ok", "none", next_id(idCounter))

\* TrueNASClient.recv: one raw frame, no ping handling
RecvRaw(io, f) ==
    /\ cpc = "idle"
    /\ act' = "recv" /\ out' = <<>>
    /\ UNCHANGED clientVars
    /\ IF ws = 0 THEN
           /\ inp' = NoFrame
           /\ res' = Res("recv", "err", "not_connected", 0)
       ELSE IF io = "recv_err" THEN
           /\ inp' = NoFrame
           /\ res' = Res("recv", "err", "io_error", 0)
       ELSE
           /\ inp' = f
           /\ res' = Res("recv", "ok", "frame", 0)

\* TrueNASClient.close
CloseOp ==
    /\ cpc = "idle"
    /\ act' = "close" /\ inp' = NoFrame /\ out' = <<>>
    /\ LET c == close(ws, authed, closed) IN
       /\ ws' = c.ws /\ authed' = c.authed /\ closed' = c.closed
    /\ res' = Res("close", "ok", "none", 0)
    /\ UNCHANGED <<idCounter, cpc, expId, nsock, allocated>>

\* ---------------------------------------------------------------- drivers
NoMsg == [id |-> "none", state |-> "none"]

\* (j or {}).get("state", "UNKNOWN") in job_events.gen: .get raises on a
\* truthy value that is not an object
InitialRaises(v) == v \in {"true", "int1", "strtrue", "joblist1"}
InitialState(v) ==
    IF v = "job_running" THEN "RUNNING"
    ELSE IF v = "job_success" THEN "SUCCESS"
    ELSE "UNKNOWN"

TerminalStates == {"SUCCESS", "FAILED", "ABORTED"}

\* with_truenas_client.wrapper: connect, then fn, then close in the finally
WrapFlow(r) ==
    /\ yielded' = yielded
    /\ IF r.st = "none" THEN UNCHANGED <<mode, fpc>>
       ELSE IF fpc \in {"connect", "body"} THEN
           /\ mode' = mode
           /\ fpc' = IF r.st = "ok" THEN "body" ELSE "finally"
       ELSE
           /\ mode' = "none" /\ fpc' = "-"

\* job_events.gen: what follows the client operation with outcome r, which read
\* frame f
GenFlow(r, f) ==
    IF r.st = "none" THEN UNCHANGED <<mode, fpc, yielded>>
    ELSE IF fpc = "g_connect" THEN
        \* connect is outside the try block: its error leaves the generator
        /\ yielded' = yielded
        /\ IF r.st = "ok" THEN mode' = mode /\ fpc' = "g_subscribe"
                          ELSE mode' = "none" /\ fpc' = "-"
    ELSE IF fpc = "g_subscribe" THEN
        /\ mode' = mode /\ yielded' = yielded
        /\ fpc' = IF r.st = "ok" THEN "g_getjob" ELSE "g_unsub"
    ELSE IF fpc = "g_getjob" THEN
        /\ mode' = mode
        /\ IF r.st = "ok" /\ ~InitialRaises(r.val)
           THEN /\ yielded' = [id |-> "job", state |-> InitialState(r.val)]
                /\ fpc' = "g_yield0"
           ELSE /\ yielded' = yielded
                /\ fpc' = "g_unsub"
    ELSE IF fpc = "g_recv" THEN
        /\ mode' = mode
        /\ IF r.st = "err" THEN yielded' = yielded /\ fpc' = "g_unsub"
           ELSE IF f.collection # "core.get_jobs" THEN UNCHANGED <<fpc, yielded>>
           ELSE IF f.fid # "job" THEN UNCHANGED <<fpc, yielded>>
           ELSE /\ yielded' = [id |-> f.fid, state |-> f.state]
                /\ fpc' = "g_yield"
    ELSE IF fpc = "g_unsub" THEN
        \* "except Exception: pass" around unsubscribe
        /\ mode' = mode /\ yielded' = yielded /\ fpc' = "g_close"
    ELSE
        /\ mode' = "none" /\ fpc' = "-" /\ yielded' = yielded

Flow(r, f) ==
    IF mode = "direct" THEN UNCHANGED <<mode, fpc, yielded>>
    ELSE IF mode = "wrap" THEN WrapFlow(r)
    ELSE GenFlow(r, f)

\* a step of the driver that runs no client method
DriverOnly(a) ==
    /\ act' = a /\ inp' = NoFrame /\ out' = <<>> /\ res' = NoRes

\* ---------------------------------------------------------------- actions
\* a caller that uses the public methods of one client object in any order
StartDirect ==
    /\ mode = "none"
    /\ mode' = "direct" /\ fpc' = "-" /\ yielded' = NoMsg
    /\ NewClient /\ DriverOnly("init")
    /\ UNCHANGED <<cfg, restoreVars, serviceVars, handlerVars>>

\* with_truenas_client.wrapper: client = TrueNASClient()
StartWrapped ==
    /\ mode = "none"
    /\ mode' = "wrap" /\ fpc' = "connect" /\ yielded' = NoMsg
    /\ NewClient /\ DriverOnly("init")
    /\ UNCHANGED <<cfg, restoreVars, serviceVars, handlerVars>>

\* job_events.gen: client = TrueNASClient()
StartStream ==
    /\ mode = "none"
    /\ mode' = "gen" /\ fpc' = "g_connect" /\ yielded' = NoMsg
    /\ NewClient /\ DriverOnly("init")
    /\ UNCHANGED <<cfg, restoreVars, serviceVars, handlerVars>>

\* the caller drops the client object
EndDirect ==
    /\ mode = "direct" /\ cpc = "idle"
    /\ mode' = "none" /\ fpc' = "-" /\ yielded' = NoMsg
    /\ DriverOnly("drop")
    /\ UNCHANGED <<restoreVars, serviceVars, handlerVars, cfg, clientVars>>

Connect ==
    /\ \/ mode = "direct"
       \/ mode = "wrap" /\ fpc = "connect"
       \/ mode = "gen" /\ fpc = "g_connect"
    /\ \E io \in IoOutcomes : ConnectStart(io)
    /\ Flow(res', inp')
    /\ UNCHANGED <<cfg, restoreVars, serviceVars, handlerVars>>

Handshake ==
    /\ \E io \in IoOutcomes : \E f \in FramesFor(io) : AwaitHandshake(io, f)
    /\ Flow(res', inp')
    /\ UNCHANGED <<cfg, restoreVars, serviceVars, handlerVars>>

Login ==
    /\ \E io \in IoOutcomes : \E f \in FramesFor(io) : AwaitLogin(io, f)
    /\ Flow(res', inp')
    /\ UNCHANGED <<cfg, restoreVars, serviceVars, handlerVars>>

Call ==
    /\ \/ mode = "direct"
       \/ mode = "wrap" /\ fpc = "body"
       \/ mode = "gen" /\ fpc = "g_getjob"
    /\ \E io \in IoOutcomes : CallStart(io)
    /\ Flow(res', inp')
    /\ UNCHANGED <<cfg, restoreVars, serviceVars, handlerVars>>

CallResponse ==
    /\ \E io \in IoOutcomes : \E f \in FramesFor(io) : AwaitCall(io, f)
    /\ Flow(res', inp')
    /\ UNCHANGED <<cfg, restoreVars, serviceVars, handlerVars>>

Subscribe ==
    /\ \/ mode = "direct"
       \/ mode = "gen" /\ fpc = "g_subscribe"
    /\ \E io \in IoOutcomes : SubUnsub("sub", "subscribe", io)
    /\ Flow(res', inp')
    /\ UNCHANGED <<cfg, restoreVars, serviceVars, handlerVars>>

Unsubscribe ==
    /\ \/ mode = "direct"
       \/ mode = "gen" /\ fpc = "g_unsub"
    /\ \E io \in IoOutcomes : SubUnsub("unsub", "unsubscribe", io)
    /\ Flow(res', inp')
    /\ UNCHANGED <<cfg, restoreVars, serviceVars, handlerVars>>

Recv ==
    /\ \/ mode = "direct"
       \/ mode = "gen" /\ fpc = "g_recv"
    /\ \E io \in IoOutcomes : \E f \in FramesFor(io) : RecvRaw(io, f)
    /\ Flow(res', inp')
    /\ UNCHANGED <<cfg, restoreVars, serviceVars, handlerVars>>

Close ==
    /\ \/ mode = "direct"
       \/ mode = "wrap" /\ fpc = "finally"
       \/ mode = "gen" /\ fpc = "g_close"
    /\ CloseOp
    /\ Flow(res', inp')
    /\ UNCHANGED <<cfg, restoreVars, serviceVars, handlerVars>>

\* the wrapped view function returns or raises between two client calls
BodyEnds ==
    /\ mode = "wrap" /\ fpc = "body" /\ cpc = "idle"
    /\ fpc' = "finally"
    /\ DriverOnly("body_ends")
    /\ UNCHANGED <<restoreVars, serviceVars, handlerVars, cfg, clientVars, mode, yielded>>

\* the consumer of the stream asks for the next message
Resume ==
    /\ mode = "gen" /\ fpc \in {"g_yield0", "g_yield"}
    /\ fpc' = IF fpc = "g_yield" /\ yielded.state \in TerminalStates
              THEN "g_unsub" ELSE "g_recv"
    /\ yielded' = NoMsg
    /\ DriverOnly("resume")
    /\ UNCHANGED <<restoreVars, serviceVars, handlerVars, cfg, clientVars, mode>>

\* a generator without the try/finally: closing it just drops the client
Cancel_noFinally ==
    /\ mode = "gen" /\ fpc \in {"g_yield0", "g_yield"}
    /\ mode' = "none" /\ fpc' = "-"
    /\ yielded' = NoMsg
    /\ DriverOnly("cancel")
    /\ UNCHANGED <<restoreVars, serviceVars, handlerVars, cfg, clientVars>>

\* the consumer closes the generator while it is suspended at a yield
Cancel ==
    /\ mode = "gen" /\ fpc \in {"g_yield0", "g_yield"}
    /\ fpc' = "g_unsub"
    /\ yielded' = NoMsg
    /\ DriverOnly("cancel")
    /\ UNCHANGED <<restoreVars, serviceVars, handlerVars, cfg, clientVars, mode>>

Configs == [url : {"none", "bad", "good"}, key : {"", "k"}]

Init ==
    /\ cfg \in Configs
    /\ ws = 0 /\ authed = FALSE /\ idCounter = 0
    /\ cpc = "idle" /\ expId = 0
    /\ nsock = 0 /\ closed = [s \in 1..MaxSockets |-> 0]
    /\ allocated = {}
    /\ mode = "none" /\ fpc = "-" /\ yielded = NoMsg
    /\ act = "init" /\ inp = NoFrame /\ out = <<>> /\ res = NoRes
    /\ RestoreIdle
    /\ ServiceIdle
    /\ HandlerIdle

Next ==
    \/ StartDirect \/ StartWrapped \/ StartStream \/ EndDirect
    \/ Connect \/ Handshake \/ Login
    \/ Call \/ CallResponse
    \/ Subscribe \/ Unsubscribe \/ Recv \/ Close
    \/ BodyEnds \/ Resume \/ Cancel

Spec == Init /\ [][Next]_vars

\* ================================================================ paths
\* A path is its text as a sequence of tokens; "/" is the separator and a name
\* is spelled by one or more tokens ("x.zfs" is <<"x", ".zfs">>), so that
\* substring tests of the code are subsequence tests here.
SnapMarkerSlash == <<".zfs", "/", "snapshot", "/">>     \* ".zfs/snapshot/"
SnapMarker == <<".zfs", "/", "snapshot">>               \* ".zfs/snapshot"
DataRoot == <<"/", "data">>                             \* "/data"
DataPrefix == <<"/", "data", "/">>                      \* "/data/"
MntPrefix == <<"/", "mnt", "/">>                        \* "/mnt/"

\* pat in t
Contains(t, pat) ==
    \E i \in 1..(Len(t) - Len(pat) + 1) : SubSeq(t, i, i + Len(pat) - 1) = pat

\* t.startswith(pre)
StartsWith(t, pre) == Len(t) >= Len(pre) /\ SubSeq(t, 1, Len(pre)) = pre

\* t[len(pre):]
DropPrefix(t, pre) == SubSeq(t, Len(pre) + 1, Len(t))

\* t.lstrip("/")
RECURSIVE LStripSlash(_)
LStripSlash(t) ==
    IF t # <<>> /\ t[1] = "/" THEN LStripSlash(Tail(t)) ELSE t

\* os.path.join(a, b)
PathJoin(a, b) ==
    IF StartsWith(b, <<"/">>) THEN b
    ELSE IF a = <<>> \/ a[Len(a)] = "/" THEN a \o b
    ELSE a \o <<"/">> \o b

\* os.path.join(parts[1], ..., parts[n])
RECURSIVE PathJoinAll(_)
PathJoinAll(parts) ==
    IF Len(parts) = 1 THEN parts[1]
    ELSE PathJoin(PathJoinAll(SubSeq(parts, 1, Len(parts) - 1)), parts[Len(parts)])

\* t.split("/"): the names between the separators, each a token sequence
RECURSIVE SplitFrom(_, _, _)
SplitFrom(t, i, cur) ==
    IF i > Len(t) THEN <<cur>>
    ELSE IF t[i] = "/" THEN <<cur>> \o SplitFrom(t, i + 1, <<>>)
    ELSE SplitFrom(t, i + 1, Append(cur, t[i]))
Split(t) == SplitFrom(t, 1, <<>>)

\* the text of the absolute path with names segs
RECURSIVE JoinSegs(_)
JoinSegs(segs) ==
    IF segs = <<>> THEN <<>>
    ELSE <<"/">> \o Head(segs) \o JoinSegs(Tail(segs))
AbsText(segs) == IF segs = <<>> THEN <<"/">> ELSE JoinSegs(segs)

ButLast(q) == SubSeq(q, 1, Len(q) - 1)

\* os.path.normpath of an absolute path: "", "." and ".." are resolved on the
\* text alone
RECURSIVE NormSegs(_, _)
NormSegs(done, rest) ==
    IF rest = <<>> THEN done
    ELSE LET seg == Head(rest) IN
         IF seg = <<>> \/ seg = <<".">> THEN NormSegs(done, Tail(rest))
         ELSE IF seg = <<"..">>
              THEN NormSegs(IF done = <<>> THEN done ELSE ButLast(done), Tail(rest))
         ELSE NormSegs(Append(done, seg), Tail(rest))
normpath(t) == AbsText(NormSegs(<<>>, Split(t)))

\* the target of the symbolic link at names q in the file system links
\* (<<>> if q is no link); links is a set of [link, target], both name lists
IsLink(links, q) == \E l \in links : l.link = q
LinkTarget(links, q) == (CHOOSE l \in links : l.link = q).target

\* os.path.realpath of an absolute path: names are resolved from the left, a
\* name that is a symbolic link is replaced by its target, ".." leaves the
\* directory reached so far
RECURSIVE RealSegs(_, _, _)
RealSegs(links, done, rest) ==
    IF rest = <<>> THEN done
    ELSE LET seg == Head(rest) IN
         IF seg = <<>> \/ seg = <<".">> THEN RealSegs(links, done, Tail(rest))
         ELSE IF seg = <<"..">>
              THEN RealSegs(links, IF done = <<>> THEN done ELSE ButLast(done),
                            Tail(rest))
         ELSE IF IsLink(links, Append(done, seg))
              THEN RealSegs(links, <<>>,
                            LinkTarget(links, Append(done, seg)) \o Tail(rest))
         ELSE RealSegs(links, Append(done, seg), Tail(rest))
realpath(links, t) == AbsText(RealSegs(links, <<>>, Split(t)))

\* ---------------------------------------------------------------- path guard
\* container_to_host_path with the prefix "/data" instead of "/data/"
container_to_host_path_noSlash(t) ==
    IF StartsWith(t, DataRoot) THEN MntPrefix \o DropPrefix(t, DataRoot) ELSE t

\* utils.paths.container_to_host_path
container_to_host_path(t) ==
    IF StartsWith(t, DataPrefix) THEN MntPrefix \o DropPrefix(t, DataPrefix) ELSE t

\* utils.paths.host_to_container_path
host_to_container_path(t) ==
    IF StartsWith(t, MntPrefix) THEN DataPrefix \o DropPrefix(t, MntPrefix) ELSE t

\* a containment test that forgets the separator after the root
in_data_noSep(base_root, t) == StartsWith(t, base_root)

\* _in_data of validate_restore_paths, _real_under of utils.paths: t is the
\* resolved path, base_root the resolved root
in_data(base_root, t) == t = base_root \/ StartsWith(t, base_root \o <<"/">>)

\* validate_restore_paths that trusts the text and resolves nothing
validate_restore_paths_textOnly(links, source_path, target_path) ==
    IF ~Contains(source_path, SnapMarkerSlash) THEN "source_not_snapshot"
    ELSE IF Contains(target_path, SnapMarker) THEN "target_in_snapshot"
    ELSE "ok"

\* utils.zfs.validate_restore_paths: "ok" or the ZfsError it raises
validate_restore_paths(links, source_path, target_path) ==
    IF ~Contains(source_path, SnapMarkerSlash) THEN "source_not_snapshot"
    ELSE IF Contains(target_path, SnapMarker) THEN "target_in_snapshot"
    ELSE LET base_root == realpath(links, DataRoot)
             src_real == realpath(links, source_path)
             tgt_real == realpath(links, target_path)
         IN  IF ~in_data(base_root, src_real) \/ ~in_data(base_root, tgt_real)
             THEN "outside_data"
             ELSE "ok"

\* utils.paths.validate_container_restore_paths
validate_container_restore_paths(links, src_container, dst_container) ==
    IF ~Contains(src_container, SnapMarkerSlash) THEN "source_not_snapshot"
    ELSE IF Contains(dst_container, SnapMarker) THEN "target_in_snapshot"
    ELSE IF \/ ~in_data(realpath(links, DataRoot), realpath(links, src_container))
            \/ ~in_data(realpath(links, DataRoot), realpath(links, dst_container))
         THEN "outside_data"
         ELSE "ok"

\* ---------------------------------------------------------------- restore
\* what c.call("filesystem.copy", ...) gives: a result value (the integer 42,
\* {"id": 42}, "42", {"status": "ok"}, null) or "raise" when the call raises
CopyResults == {"int42", "obj_id42", "str42", "obj_status", "null"}
CallOutcomes == CopyResults \cup {"raise"}

\* a job id extraction that takes integers and objects only
ExtractJobId_noString(result) ==
    IF result = "obj_id42" THEN "42"
    ELSE IF result = "int42" THEN "42"
    ELSE "none"

\* the job id restore_path takes from the result, "none" for None
ExtractJobId(result) ==
    IF result = "obj_id42" THEN "42"
    ELSE IF result = "int42" THEN "42"
    ELSE IF result = "str42" THEN "42"
    ELSE "none"

\* ZfsService.restore_path with a client: why is "ok" or the exception, copy
\* the request sent, job the id returned.  resp is the outcome of the call.
restore_path(dataset, snapshot, subpath, target_container_path, resp) ==
    LET sub == LStripSlash(subpath)
        src_container_path ==
            normpath(PathJoinAll(<<DataRoot, dataset, <<".zfs">>, <<"snapshot">>,
                                   snapshot, sub>>))
        src_host == container_to_host_path(src_container_path)
        dest_host == container_to_host_path(target_container_path)
        request == [sent |-> TRUE, src |-> src_host, dst |-> dest_host]
    IN  IF ~Contains(src_container_path, SnapMarkerSlash)
        THEN [why |-> "source_not_snapshot", copy |-> NoCopy, job |-> "none"]
        ELSE IF Contains(target_container_path, SnapMarker)
        THEN [why |-> "target_in_snapshot", copy |-> NoCopy, job |-> "none"]
        ELSE IF resp = "raise"
        THEN [why |-> "call_error", copy |-> request, job |-> "none"]
        ELSE IF ExtractJobId(resp) = "none"
        THEN [why |-> "unexpected_result", copy |-> request, job |-> "none"]
        ELSE [why |-> "ok", copy |-> request, job |-> ExtractJobId(resp)]

\* the symbolic links the container may have: none, a directory under /data
\* that points outside, /data itself a link
FileSystems ==
    { {},
      {[link |-> << <<"data">>, <<"link">> >>, target |-> << <<"etc">> >>]},
      {[link |-> << <<"data">> >>, target |-> << <<"mnt">> >>]} }

PathPrefixes ==
    { <<"/", "data", "/", "ds">>, <<"/", "etc">>, <<"/", "data">>,
      <<"/", "data", "X", "/", "ds">>, <<"/", "data", "/", "link">> }
PathMids ==
    { <<>>, <<"/", ".zfs", "/", "snapshot", "/", "s1">>,
      <<"/", "x", ".zfs", "/", "snapshot", "/", "s1">>,
      <<"/", ".zfs", "/", "snapshot", "X">> }
PathTails ==
    { <<>>, <<"/", "f">>, <<"/", "x">>,
      <<"/", "..", "/", "..", "/", "..", "/", "etc", "/", "passwd">>,
      <<"/", "..", "/", "..", "/", "..", "/", "..", "/", "..", "/", "etc", "/", "passwd">> }
SamplePaths == {a \o b \o c : a \in PathPrefixes, b \in PathMids, c \in PathTails}

Datasets == { <<>>, <<"ds">>, <<"link">>, <<"/", "etc">> }
Snapshots == { <<>>, <<"s1">>, <<"..", "/", "snapshot", "/", "s2">> }
SubPaths ==
    { <<>>, <<"f">>, <<"/", "f">>, <<"..", "/", "s2", "/", "f">>,
      <<"..", "/", "..", "/", "..", "/", "x", ".zfs", "/", "snapshot", "/", "f">>,
      <<"..", "/", "..", "/", "..", "/", "..", "/", "..", "/", "etc", "/", "passwd">> }
Targets ==
    { <<"/", "data", "/", "ds", "/", "f">>, <<"/", "etc", "/", "passwd">>,
      <<"/", "data", "/", "ds", "/", ".zfs", "/", "snapshot", "/", "s1", "/", "f">>,
      <<"/", "data", "/", "link", "/", "f">> }
MapRoots == { <<"/", "mnt">>, <<"/", "data">>, <<"/", "mnt", "X">>, <<"/", "etc">> }
MapRests ==
    { <<>>, <<"/">>, <<"/", "ds", "/", "f">>, <<"/", "data", "/", "f">>,
      <<"/", "mnt", "/", "f">> }
MapPaths == {a \o b : a \in MapRoots, b \in MapRests}

\* a step of the path operations leaves the client alone; the operations
\* keep no state, one runs to its end before the next is asked for
ClientIdle ==
    /\ act' = "none" /\ inp' = NoFrame /\ out' = <<>> /\ res' = NoRes
    /\ UNCHANGED <<cfg, clientVars, mode, fpc, yielded, fs, serviceVars, handlerVars>>

\* validate_restore_paths and validate_container_restore_paths on one pair
ValidateRestore ==
    \E s \in SamplePaths, d \in SamplePaths :
        /\ pop = "none"
        /\ pop' = "validate"
        /\ pin' = [NoInput EXCEPT !.src = s, !.dst = d]
        /\ pres' = [NoOutcome EXCEPT
                      !.why = validate_restore_paths(fs, s, d),
                      !.why2 = validate_container_restore_paths(fs, s, d),
                      !.st = IF validate_restore_paths(fs, s, d) = "ok"
                             THEN "ok" ELSE "invalid"]
        /\ copy' = NoCopy
        /\ ClientIdle

\* app.restore_file, inside with_truenas_client and behind require_admin
RestoreFile ==
    \E dataset \in Datasets, snapshot \in Snapshots, path \in SubPaths,
       resp \in CallOutcomes :
        LET src == PathJoinAll(<<DataRoot, dataset, <<".zfs">>, <<"snapshot">>,
                                 snapshot, path>>)
            dest == PathJoinAll(<<DataRoot, dataset, path>>)
            verdict == validate_restore_paths(fs, src, dest)
            r == restore_path(dataset, snapshot, path, dest, resp)
        IN  /\ pop = "none"
            /\ pop' = "restore_file"
            /\ pin' = [NoInput EXCEPT !.dataset = dataset, !.snapshot = snapshot,
                                      !.path = path]
            /\ IF dataset = <<>> \/ snapshot = <<>> \/ path = <<>> THEN
                   /\ pres' = [NoOutcome EXCEPT !.st = "bad_request", !.why = "missing"]
                   /\ copy' = NoCopy
               ELSE IF verdict # "ok" THEN
                   /\ pres' = [NoOutcome EXCEPT !.st = "bad_request", !.why = verdict,
                                                !.t1 = src, !.t2 = dest]
                   /\ copy' = NoCopy
               ELSE
                   /\ pres' = [NoOutcome EXCEPT
                                 !.st = IF r.why = "ok" THEN "submitted"
                                        ELSE "server_error",
                                 !.why = r.why, !.t1 = src, !.t2 = dest,
                                 !.job = r.job,
                                 !.resp = IF r.copy.sent THEN resp ELSE "none"]
                   /\ copy' = r.copy
            /\ ClientIdle

\* ZfsService.restore_path called by any user of the service
RestorePath ==
    \E dataset \in Datasets, snapshot \in Snapshots, subpath \in SubPaths,
       target \in Targets, resp \in CallOutcomes :
        LET r == restore_path(dataset, snapshot, subpath, target, resp) IN
        /\ pop = "none"
        /\ pop' = "restore_path"
        /\ pin' = [NoInput EXCEPT !.dataset = dataset, !.snapshot = snapshot,
                                  !.path = subpath, !.dst = target]
        /\ pres' = [NoOutcome EXCEPT
                      !.st = IF r.why = "ok" THEN "ok" ELSE "error",
                      !.why = r.why, !.t2 = target, !.job = r.job,
                      !.resp = IF r.copy.sent THEN resp ELSE "none"]
        /\ copy' = r.copy
        /\ ClientIdle

\* both round trips of the path mapping on one path: t1 is the backend path of
\* the public path of p, t2 the public path of the backend path of p
MapPath ==
    \E p \in MapPaths :
        /\ pop = "none"
        /\ pop' = "map"
        /\ pin' = [NoInput EXCEPT !.src = p]
        /\ pres' = [NoOutcome EXCEPT
                      !.st = "ok",
                      !.why = IF host_to_container_path(p) = p THEN "same" ELSE "mapped",
                      !.why2 = IF container_to_host_path(p) = p THEN "same" ELSE "mapped",
                      !.t1 = container_to_host_path(host_to_container_path(p)),
                      !.t2 = host_to_container_path(container_to_host_path(p))]
        /\ copy' = NoCopy
        /\ ClientIdle

\* the operation has returned its outcome to its caller
Respond ==
    /\ pop # "none"
    /\ pop' = "none" /\ pin' = NoInput /\ pres' = NoOutcome /\ copy' = NoCopy
    /\ ClientIdle

RestoreInit ==
    /\ cfg = [url |-> "good", key |-> "k"]
    /\ ws = 0 /\ authed = FALSE /\ idCounter = 0
    /\ cpc = "idle" /\ expId = 0
    /\ nsock = 0 /\ closed = [s \in 1..MaxSockets |-> 0]
    /\ allocated = {}
    /\ mode = "none" /\ fpc = "-" /\ yielded = NoMsg
    /\ act = "none" /\ inp = NoFrame /\ out = <<>> /\ res = NoRes
    /\ fs \in FileSystems
    /\ pop = "none" /\ pin = NoInput /\ pres = NoOutcome /\ copy = NoCopy
    /\ ServiceIdle
    /\ HandlerIdle

RestoreNext == ValidateRestore \/ RestoreFile \/ RestorePath \/ MapPath \/ Respond

RestoreSpec == RestoreInit /\ [][RestoreNext]_vars

\* ---------------------------------------------------------------- service
\* the code point of a character (ord)
Code(c) ==
    CASE c = "/" -> 47 [] c = "B" -> 66 [] c = "Y" -> 89 [] c = "_" -> 95
      [] c = "a" -> 97 [] c = "b" -> 98 [] c = "l" -> 108 [] c = "x" -> 120
      [] c = "y" -> 121

\* str.lower, character by character
Lower(c) == CASE c = "B" -> "b" [] c = "Y" -> "y" [] OTHER -> c
LowerText(t) == [i \in 1..Len(t) |-> Lower(t[i])]

\* a < b on Python strings: by code point, a proper prefix first
RECURSIVE TextLess(_, _)
TextLess(a, b) ==
    IF b = <<>> THEN FALSE
    ELSE IF a = <<>> THEN TRUE
    ELSE IF Code(Head(a)) # Code(Head(b)) THEN Code(Head(a)) < Code(Head(b))
    ELSE TextLess(Tail(a), Tail(b))

\* name.split("/", 1)[0]
RECURSIVE PoolOf(_)
PoolOf(name) ==
    IF name = <<>> \/ Head(name) = "/" THEN <<>>
    ELSE <<Head(name)>> \o PoolOf(Tail(name))

\* created_at values: None, a datetime with a UTC offset, a datetime without
Null == [kind |-> "null", t |-> 0]
Aware(t) == [kind |-> "aware", t |-> t]
Naive(t) == [kind |-> "naive", t |-> t]
\* datetime.min.replace(tzinfo=timezone.utc): before every other datetime
DatetimeMin == [kind |-> "aware", t |-> 0]

\* a snapshot object of the backend: parsed is properties.creation.parsed,
\* "utc" an ISO text ending in "Z" or an offset, "naive" an ISO text without,
\* "bad" a value fromisoformat rejects, "absent" no value
RawSnap(d, n, f, t) == [dataset |-> d, snapshot_name |-> n, fmt |-> f, t |-> t]

\* utils.zfs.list_snapshots, the loop body: created_at of one snapshot
CreatedAt(raw) ==
    IF raw.fmt = "utc" THEN Aware(raw.t)
    ELSE IF raw.fmt = "naive" THEN Naive(raw.t)
    ELSE Null
Converted(raw) ==
    [dataset |-> raw.dataset, snapshot_name |-> raw.snapshot_name,
     created_at |-> CreatedAt(raw)]

\* what the backend answers to zfs.snapshot.query: a list, null, or the call
\* raises
ListAnswer(l) == [kind |-> "list", snaps |-> l]
NullAnswer == [kind |-> "null", snaps |-> <<>>]
RaiseAnswer == [kind |-> "raise", snaps |-> <<>>]

\* the backend applies the filter [["dataset", "=", dataset]]
FilterDataset(l, dataset) == SelectSeq(l, LAMBDA r : r.dataset = dataset)

\* utils.zfs.list_snapshots with a client: st "raise" when the call raises
list_snapshots(dataset, answer) ==
    IF answer.kind = "raise" THEN [st |-> "raise", value |-> <<>>]
    ELSE LET snaps == IF dataset # <<>> THEN FilterDataset(answer.snaps, dataset)
                      ELSE answer.snaps
         IN  [st |-> "ok", value |-> [i \in 1..Len(snaps) |-> Converted(snaps[i])]]

\* the key of the sorts and of the annotation: created_at or datetime.min
CreatedKey(snap) ==
    IF snap.created_at = Null THEN DatetimeMin ELSE snap.created_at

\* comparing two datetimes raises TypeError when only one has an offset
Comparable(a, b) == a.kind = b.kind

\* ZfsService._snapshot_ttl
snapshot_ttl == 30

\* a freshness test that never lets an entry expire
cache_fresh_noTtl(cached, tnow) == cached.present

\* "cached and (now - cached[0]) < self._snapshot_ttl" of build_pool_tree
cache_fresh(cached, tnow) == cached.present /\ (tnow - cached.ts) < snapshot_ttl

\* snapshot_meta: per dataset the count, the newest created and its name;
\* count 0 stands for a dataset without an item
NoItem == [count |-> 0, latest_created |-> DatetimeMin, latest_name |-> "none"]
EmptyMeta == [d \in DatasetNames |-> NoItem]

\* an error handler that keeps what the loop had computed
MetaOnError_keepsPartial(partial) == partial

\* "except Exception: snapshot_meta = {}" of build_pool_tree
MetaOnError(partial) == EmptyMeta

\* an update test that lets every later snapshot replace the latest one
Newer_always(created, latest) == TRUE

\* "created > item['latest_created']" for two comparable datetimes
Newer(created, latest) == created.t > latest.t

\* the loop over all_snaps of build_pool_tree: ok is FALSE when it raised
RECURSIVE AnnotateFrom(_, _)
AnnotateFrom(snaps, meta) ==
    IF snaps = <<>> THEN [ok |-> TRUE, meta |-> meta]
    ELSE LET snap == Head(snaps)
             dataset_name == snap.dataset
             created == CreatedKey(snap)
             item == meta[dataset_name]
             counted == [item EXCEPT !.count = item.count + 1]
         IN  IF dataset_name = <<>> THEN AnnotateFrom(Tail(snaps), meta)
             ELSE IF item.count = 0 THEN
                 AnnotateFrom(Tail(snaps),
                     [meta EXCEPT ![dataset_name] =
                         [count |-> 1, latest_created |-> created,
                          latest_name |-> snap.snapshot_name]])
             ELSE IF ~Comparable(created, item.latest_created) THEN
                 [ok |-> FALSE, meta |-> [meta EXCEPT ![dataset_name] = counted]]
             ELSE IF Newer(created, item.latest_created) THEN
                 AnnotateFrom(Tail(snaps),
                     [meta EXCEPT ![dataset_name] =
                         [counted EXCEPT !.latest_created = created,
                                         !.latest_name = snap.snapshot_name]])
             ELSE AnnotateFrom(Tail(snaps), [meta EXCEPT ![dataset_name] = counted])

\* a sort key that keeps the case of the name
NameKey_caseSensitive(name) == name

\* key=lambda d: d.get("name", "").lower()
NameKey(name) == LowerText(name)

\* sorted(pools[pool], key=...): stable, ascending
RECURSIVE InsertByName(_, _)
InsertByName(x, sorted) ==
    IF sorted = <<>> THEN <<x>>
    ELSE IF TextLess(NameKey(x.name), NameKey(Head(sorted).name))
         THEN <<x>> \o sorted
         ELSE <<Head(sorted)>> \o InsertByName(x, Tail(sorted))
RECURSIVE SortByName(_)
SortByName(l) ==
    IF l = <<>> THEN <<>>
    ELSE InsertByName(l[Len(l)], SortByName(SubSeq(l, 1, Len(l) - 1)))

\* sorted(pools.keys())
RECURSIVE SortedTexts(_)
SortedTexts(S) ==
    IF S = {} THEN <<>>
    ELSE LET m == CHOOSE x \in S : \A y \in S \ {x} : TextLess(x, y)
         IN  <<m>> \o SortedTexts(S \ {m})

\* the grouping both build_pool_tree functions end with: datasets without a
\* name are skipped, the others appended to the pool of their first segment
GroupByPool(items) ==
    LET named == SelectSeq(items, LAMBDA d : d.name # <<>>)
        pools == SortedTexts({PoolOf(named[i].name) : i \in 1..Len(named)})
    IN  [i \in 1..Len(pools) |->
            [name |-> pools[i],
             datasets |-> SortByName(SelectSeq(named,
                              LAMBDA d : PoolOf(d.name) = pools[i]))]]

\* services.zfs_service.build_pool_tree, the module-level function
build_pool_tree_function(datasets) == GroupByPool(datasets)

\* ds_copy of ZfsService.build_pool_tree
DsCopy(ds, meta) ==
    IF ds.name = <<>> THEN [name |-> <<>>, snapshot_count |-> 0,
                            latest_snapshot |-> "none"]
    ELSE [name |-> ds.name,
          snapshot_count |-> meta[ds.name].count,
          latest_snapshot |-> IF meta[ds.name].count = 0 THEN "none"
                              ELSE meta[ds.name].latest_name]

\* ZfsService.build_pool_tree: the cache it leaves, the number of backend
\* snapshot queries it made, what it found in the cache, the listing it
\* annotated from and the tree it returns
build_pool_tree(cache, tnow, datasets, answer) ==
    LET cached == cache[AllKey]
        hit == cache_fresh(cached, tnow)
        fetched == list_snapshots(<<>>, answer)
        failed == ~hit /\ fetched.st = "raise"
        all_snaps == IF hit THEN cached.snaps ELSE fetched.value
        ann == AnnotateFrom(all_snaps, EmptyMeta)
        snapshot_meta == IF failed THEN MetaOnError(EmptyMeta)
                         ELSE IF ~ann.ok THEN MetaOnError(ann.meta)
                         ELSE ann.meta
    IN  [cache |-> IF hit \/ failed THEN cache
                   ELSE [cache EXCEPT ![AllKey] = Entry(tnow, all_snaps)],
         queries |-> IF hit THEN 0 ELSE 1,
         found |-> IF ~cached.present THEN "absent"
                   ELSE IF hit THEN "fresh" ELSE "stale",
         fetched |-> ~hit /\ ~failed,
         st |-> IF failed THEN "listing_failed"
                ELSE IF ~ann.ok THEN "annotation_failed" ELSE "ok",
         listing |-> all_snaps,
         tree |-> GroupByPool([i \in 1..Len(datasets) |->
                                  DsCopy(datasets[i], snapshot_meta)])]

\* snapshots.sort(key=created_at or datetime.min, reverse=True): stable,
\* newest first
RECURSIVE InsertNewestFirst(_, _)
InsertNewestFirst(x, sorted) ==
    IF sorted = <<>> THEN <<x>>
    ELSE IF CreatedKey(Head(sorted)).t < CreatedKey(x).t
         THEN <<x>> \o sorted
         ELSE <<Head(sorted)>> \o InsertNewestFirst(x, Tail(sorted))
RECURSIVE SortNewestFirst(_)
SortNewestFirst(l) ==
    IF l = <<>> THEN <<>>
    ELSE InsertNewestFirst(l[Len(l)], SortNewestFirst(SubSeq(l, 1, Len(l) - 1)))

\* the sort compares keys of two kinds somewhere as soon as the list holds
\* both, and that comparison raises TypeError
SortRaises(l) ==
    \E i, j \in 1..Len(l) : ~Comparable(CreatedKey(l[i]), CreatedKey(l[j]))

\* app.dataset_view up to the sort: the sorted listing, or the exception
dataset_view(dataset, answer) ==
    LET snapshots == list_snapshots(dataset, answer)
    IN  IF snapshots.st = "raise" THEN [st |-> "backend_error", value |-> <<>>]
        ELSE IF SortRaises(snapshots.value) THEN [st |-> "type_error", value |-> <<>>]
        ELSE [st |-> "ok", value |-> SortNewestFirst(snapshots.value)]

\* a result of zfs.snapshot.get_diff: null, or an object in which each of the
\* keys is absent, an empty list or a list of files
DiffObject(a, r, m) == [null |-> FALSE, added |-> a, removed |-> r, modified |-> m]
NullDiff == [null |-> TRUE, added |-> "absent", removed |-> "absent",
             modified |-> "absent"]
EmptyDiff == DiffObject("empty", "empty", "empty")

\* Python truth of a diff result: None and {} are false
DiffTruthy(d) ==
    ~d.null /\ (d.added # "absent" \/ d.removed # "absent" \/ d.modified # "absent")

\* utils.zfs.snapshot_diff: result or {"added": [], "removed": [], "modified": []}
snapshot_diff(result) == IF DiffTruthy(result) THEN result ELSE EmptyDiff

\* ---------------------------------------------------------------- service steps
MaxNow == 40        \* the clock stops here
TickStep == 10      \* seconds between two readings of the clock

\* snapshot objects the backend may hold
ListingCounts ==
    << RawSnap(DsAX, "s1", "utc", 1), RawSnap(DsAX, "s3", "utc", 2),
       RawSnap(DsAX, "s2", "absent", 0), RawSnap(DsAY, "s1", "bad", 0),
       RawSnap(<<>>, "s9", "utc", 2) >>
ListingTies ==
    << RawSnap(DsAX, "s1", "utc", 2), RawSnap(DsAX, "s2", "utc", 2),
       RawSnap(DsB, "s1", "utc", 1) >>
ListingMixed ==
    << RawSnap(DsAX, "s1", "naive", 1), RawSnap(DsB, "s1", "utc", 1),
       RawSnap(DsAX, "s2", "absent", 0) >>
ListingNaive ==
    << RawSnap(DsAX, "s1", "naive", 1), RawSnap(DsAX, "s2", "naive", 2) >>

\* answers to zfs.snapshot.query while the cache is exercised
CacheAnswers == {ListAnswer(ListingCounts), ListAnswer(ListingMixed), NullAnswer,
                 RaiseAnswer}
\* datasets the cache steps list, roll back and clone
CacheDatasets == {DsAX, DsB}
\* the datasets zfs.dataset.query returns for the index page
IndexDatasets == << [name |-> DsAX], [name |-> DsB] >>

\* a service step leaves the client and the path operations alone
OthersIdle ==
    /\ act' = "none" /\ inp' = NoFrame /\ out' = <<>> /\ res' = NoRes
    /\ UNCHANGED <<cfg, clientVars, mode, fpc, yielded, restoreVars, handlerVars>>

\* time passes between two requests
Tick ==
    /\ sop = "none" /\ now + TickStep <= MaxNow
    /\ now' = now + TickStep
    /\ UNCHANGED <<snapshot_cache, changed, listed, sop, sin, sout>>
    /\ OthersIdle

\* ZfsService.list_snapshots(dataset): always one backend query
ListSnapshots ==
    \E dataset \in CacheDatasets, answer \in CacheAnswers :
        LET r == list_snapshots(dataset, answer) IN
        /\ sop = "none"
        /\ sop' = "list_snapshots"
        /\ sin' = [NoArgs EXCEPT !.dataset = dataset]
        /\ sout' = [NoReturn EXCEPT !.st = r.st, !.queries = 1, !.value = r.value]
        /\ listed' = IF r.st = "ok" THEN [listed EXCEPT ![dataset] = now] ELSE listed
        /\ UNCHANGED <<snapshot_cache, now, changed>>
        /\ OthersIdle

\* ZfsService.rollback_snapshot: the backend call, then the cache entry of
\* the dataset is dropped; a call that raises leaves the cache alone
RollbackSnapshot ==
    \E dataset \in CacheDatasets, ok \in BOOLEAN :
        /\ sop = "none"
        /\ sop' = "rollback_snapshot"
        /\ sin' = [NoArgs EXCEPT !.dataset = dataset]
        /\ sout' = [NoReturn EXCEPT !.st = IF ok THEN "ok" ELSE "raise"]
        /\ IF ok
           THEN /\ snapshot_cache' = [snapshot_cache EXCEPT ![dataset] = NoEntry]
                /\ changed' = changed \cup {dataset}
                /\ listed' = [listed EXCEPT ![dataset] = NoTime]
           ELSE UNCHANGED <<snapshot_cache, changed, listed>>
        /\ now' = now
        /\ OthersIdle

\* ZfsService.clone_snapshot: the backend call, then the entries of the
\* source and of the target are dropped
CloneSnapshot ==
    \E dataset \in CacheDatasets, target \in CacheDatasets, ok \in BOOLEAN :
        /\ sop = "none"
        /\ sop' = "clone_snapshot"
        /\ sin' = [NoArgs EXCEPT !.dataset = dataset, !.target = target]
        /\ sout' = [NoReturn EXCEPT !.st = IF ok THEN "ok" ELSE "raise"]
        /\ IF ok
           THEN /\ snapshot_cache' = [snapshot_cache EXCEPT ![dataset] = NoEntry,
                                                           ![target] = NoEntry]
                /\ changed' = changed \cup {dataset, target}
                /\ listed' = [listed EXCEPT ![dataset] = NoTime, ![target] = NoTime]
           ELSE UNCHANGED <<snapshot_cache, changed, listed>>
        /\ now' = now
        /\ OthersIdle

\* one call of ZfsService.build_pool_tree and what it leaves behind
TreeStep(op, datasets, answer) ==
    LET r == build_pool_tree(snapshot_cache, now, datasets, answer) IN
    /\ sop = "none"
    /\ sop' = op
    /\ sin' = [NoArgs EXCEPT !.datasets = datasets]
    /\ sout' = [st |-> r.st,
                queries |-> r.queries, found |-> r.found,
                value |-> <<r.tree, build_pool_tree_function(datasets), r.listing>>]
    /\ snapshot_cache' = r.cache
    /\ changed' = IF r.fetched THEN {} ELSE changed
    /\ UNCHANGED <<now, listed>>
    /\ OthersIdle

\* app.index: the pool tree of the datasets of the backend
IndexPage ==
    \E answer \in CacheAnswers :
        TreeStep("index", IndexDatasets, answer)

\* the operation has returned its outcome to its caller
Return ==
    /\ sop # "none"
    /\ sop' = "none" /\ sin' = NoArgs /\ sout' = NoReturn
    /\ UNCHANGED <<snapshot_cache, now, changed, listed>>
    /\ OthersIdle

ServiceInit == RestoreInit /\ fs = {}

CacheNext ==
    \/ Tick \/ ListSnapshots \/ RollbackSnapshot \/ CloneSnapshot
    \/ IndexPage \/ Return

CacheSpec == ServiceInit /\ [][CacheNext]_vars

\* ---------------------------------------------------------------- service inputs
MaxList == 3        \* longest list of datasets or of snapshots given

\* lists of dataset objects: names in two pools, in both cases, and one
\* object without a name
TreeNames == {DsAX, DsAY, DsB, <<>>}
DatasetLists ==
    UNION {[1..n -> {[name |-> d] : d \in TreeNames}] : n \in 0..MaxList}
TreeAnswers ==
    {ListAnswer(ListingCounts), ListAnswer(ListingTies), ListAnswer(ListingMixed),
     ListAnswer(ListingNaive), NullAnswer, RaiseAnswer}

\* snapshots of one dataset with every mix of creation values, next to a
\* snapshot of another dataset
Creations == {[fmt |-> "absent", t |-> 0], [fmt |-> "utc", t |-> 1],
              [fmt |-> "utc", t |-> 2], [fmt |-> "naive", t |-> 1]}
SnapNames == <<"s1", "s2", "s3">>
ViewListings ==
    UNION {{ <<RawSnap(DsB, "s0", "utc", 2)>> \o
             [i \in 1..n |-> RawSnap(DsAX, SnapNames[i], c[i].fmt, c[i].t)] :
                c \in [1..n -> Creations]} : n \in 0..MaxList}
ViewAnswers == {ListAnswer(l) : l \in ViewListings} \cup {NullAnswer, RaiseAnswer}

DiffValues == {"absent", "empty", "files"}
DiffResults ==
    {NullDiff} \cup {DiffObject(a, r, m) : a \in DiffValues, r \in DiffValues,
                                          m \in DiffValues}

\* ZfsService.build_pool_tree on any list of datasets
BuildPoolTree ==
    \E datasets \in DatasetLists, answer \in TreeAnswers :
        TreeStep("build_pool_tree", datasets, answer)

\* app.dataset_view for one dataset
DatasetView ==
    \E answer \in ViewAnswers :
        LET r == dataset_view(DsAX, answer) IN
        /\ sop = "none"
        /\ sop' = "dataset_view"
        /\ sin' = [NoArgs EXCEPT !.dataset = DsAX]
        /\ sout' = [NoReturn EXCEPT !.st = r.st, !.queries = 1,
                      !.value = <<r.value, list_snapshots(DsAX, answer).value>>]
        /\ UNCHANGED <<snapshot_cache, now, changed, listed>>
        /\ OthersIdle

\* ZfsService.snapshot_diff: value is the backend result and what is returned
SnapshotDiff ==
    \E result \in DiffResults :
        /\ sop = "none"
        /\ sop' = "snapshot_diff"
        /\ sin' = [NoArgs EXCEPT !.dataset = DsAX]
        /\ sout' = [NoReturn EXCEPT !.st = "ok", !.queries = 1,
                      !.value = <<result, snapshot_diff(result)>>]
        /\ UNCHANGED <<snapshot_cache, now, changed, listed>>
        /\ OthersIdle

ServiceNext == BuildPoolTree \/ DatasetView \/ SnapshotDiff \/ Return

ServiceSpec == ServiceInit /\ [][ServiceNext]_vars

\* ---------------------------------------------------------------- handlers
\* a role check that lets every logged-in session through
require_admin_anyRole(role) == role # "none"

\* require_login lets the request through: session.get("role") is truthy
require_login(role) == role # "none"

\* require_admin lets the request through
require_admin(role) == role = "admin"

\* the handlers behind require_admin, the requests that change the backend
AdminRoutes == {"rollback", "clone", "restore_file"}
\* health is behind require_truenas only
Routes == AdminRoutes \cup {"index", "health"}
Mutating == {"zfs.snapshot.rollback", "zfs.snapshot.clone", "filesystem.copy"}

\* the backend method of the body of a handler
MethodOf(r) ==
    CASE r = "rollback" -> "zfs.snapshot.rollback"
      [] r = "clone" -> "zfs.snapshot.clone"
      [] r = "restore_file" -> "filesystem.copy"
      [] r = "health" -> "system.version"
      [] OTHER -> "zfs.dataset.query"

\* one request through require_truenas, require_login, require_admin (on the
\* admin routes), with_truenas_client and the body.  connectOk: connect
\* succeeds; formOk: the body accepts the request data (clone target given,
\* restore fields given and paths valid); callOk: the backend call returns
Handle(r, c, role, connectOk, formOk, callOk) ==
    IF ~is_configured(c) THEN [status |-> "config_error", connects |-> 0, sent |-> {}]
    ELSE IF r # "health" /\ ~require_login(role) THEN [status |-> "redirect", connects |-> 0, sent |-> {}]
    ELSE IF r \in AdminRoutes /\ ~require_admin(role)
         THEN [status |-> "forbidden", connects |-> 0, sent |-> {}]
    ELSE IF ~connectOk THEN [status |-> "server_error", connects |-> 1, sent |-> {}]
    ELSE IF r \in {"clone", "restore_file"} /\ ~formOk
         THEN [status |-> "bad_request", connects |-> 1, sent |-> {}]
    ELSE [status |-> IF callOk THEN "ok"
                     ELSE IF r = "health" THEN "unavailable" ELSE "server_error",
          connects |-> 1, sent |-> {MethodOf(r)}]

\* a handler step leaves the client, the path and the service state alone
HandlerOnly ==
    /\ act' = "none" /\ inp' = NoFrame /\ out' = <<>> /\ res' = NoRes
    /\ UNCHANGED <<cfg, clientVars, mode, fpc, yielded, restoreVars, serviceVars>>

\* app.login, POST: the password matches the admin hash, the viewer hash, or
\* neither
LoginPost ==
    \E as \in {"admin", "viewer", "invalid"} :
        /\ route = "none"
        /\ route' = "login"
        /\ session' = IF as = "invalid" THEN session ELSE as
        /\ reply' = [NoReply EXCEPT !.status = IF as = "invalid" THEN "login_page"
                                                ELSE "redirect"]
        /\ HandlerOnly

\* app.logout: session.clear()
Logout ==
    /\ route = "none"
    /\ route' = "logout" /\ session' = "none"
    /\ reply' = [NoReply EXCEPT !.status = "redirect"]
    /\ HandlerOnly

\* app.index, app.health, app.rollback, app.clone, app.restore_file for one
\* request
Request ==
    \E r \in Routes, connectOk \in BOOLEAN, formOk \in BOOLEAN, callOk \in BOOLEAN :
        /\ route = "none"
        /\ connectOk => cfg.url = "good"
        /\ route' = r
        /\ reply' = Handle(r, cfg, session, connectOk, formOk, callOk)
        /\ session' = session
        /\ HandlerOnly

\* the answer has been sent
Answered ==
    /\ route # "none"
    /\ route' = "none" /\ reply' = NoReply /\ session' = session
    /\ HandlerOnly

HandlerInit == Init

HandlerNext == LoginPost \/ Logout \/ Request \/ Answered

HandlerSpec == HandlerInit /\ [][HandlerNext]_vars


\* ---------------------------------------------------------------- claims
Pong(w) == Sent("pong", 0, "none", "none", w)
RpcMethods == {"call", "subscribe", "unsubscribe"}
Waits == {"await_handshake", "await_login", "await_call"}

\* C1: call, subscribe and unsubscribe send a frame only on a connection that
\* is connected and authenticated; invoked in any other state they fail with
\* the matching error and send nothing (the pongs call sends while it waits
\* also go out on a connected, authenticated connection).
RpcOnlyWhenAuthenticated ==
    [][ /\ (act' \in RpcMethods /\ out' # <<>>) => (ws # 0 /\ authed)
        /\ (act' = "await_call" /\ out' # <<>>) => (ws # 0 /\ authed)
        /\ (act' \in RpcMethods /\ ws = 0) =>
               (res'.st = "err" /\ res'.val = "not_connected" /\ out' = <<>>)
        /\ (act' \in RpcMethods /\ ws # 0 /\ ~authed) =>
               (res'.st = "err" /\ res'.val = "not_authenticated" /\ out' = <<>>)
      ]_vars

RpcRefusedWhenUnconnected ==
    /\ act = "call" /\ ws = 0 /\ ~authed
    /\ res = Res("call", "err", "not_connected", 0) /\ out = <<>>

\* C2: a ping read while connect waits for the handshake acknowledgement or
\* while call/_authenticate waits for its response is answered with exactly
\* one pong, is not returned as the response, and the wait goes on (unless
\* sending the pong itself raises, which fails the operation).
PingAnsweredInWait ==
    [][ (act' \in Waits /\ inp' = PingFrame) =>
           /\ res'.st # "ok"
           /\ \/ /\ out' = <<Pong(ws)>>
                 /\ res' = NoRes
                 /\ cpc' = cpc /\ expId' = expId /\ ws' = ws /\ authed' = authed
              \/ /\ out' = <<>>
                 /\ res'.st = "err" /\ res'.val = "io_error"
      ]_vars

PingAnsweredInCall ==
    /\ act = "await_call" /\ inp = PingFrame
    /\ out = <<Pong(ws)>> /\ cpc = "call" /\ res = NoRes

\* C3: every ping frame read on a connection is answered with a pong, also
\* when the job event stream reads it through recv.
StreamAnswersPing ==
    (mode = "gen" /\ inp = PingFrame /\ res.st # "err") =>
        \E i \in 1..Len(out) : out[i].msg = "pong"

\* C4: call allocates a fresh id, sends exactly one request frame that carries
\* it, and its outcome is taken from the first frame read that is a result
\* frame with that id (its result is returned, or its error raised); every
\* other frame leaves the call waiting and is not returned.
CallReturnsMatchingResult ==
    [][ /\ (act' = "call" /\ out' # <<>>) =>
               /\ idCounter' \notin allocated
               /\ out' = <<Sent("method", idCounter', "none", "call", ws)>>
               /\ cpc' = "call" /\ expId' = idCounter'
        /\ (act' = "await_call") =>
               /\ \A i \in 1..Len(out') : out'[i].msg = "pong"
               /\ expId \in allocated
               /\ (res'.st = "ok") =>
                      /\ inp'.msg = "result" /\ inp'.id = expId
                      /\ res' = Res("call", "ok", inp'.result, expId)
               /\ (inp'.msg = "result" /\ inp'.id = expId) =>
                      (cpc' = "idle" /\ res'.op = "call" /\ res'.id = expId)
               /\ (inp' # NoFrame /\ ~(inp'.msg = "result" /\ inp'.id = expId)) =>
                      /\ res'.st # "ok"
                      /\ (res' = NoRes => cpc' = "call" /\ expId' = expId)
      ]_vars

CallReturnedResult ==
    /\ act = "await_call" /\ res = Res("call", "ok", "job_running", 3)
    /\ inp.msg = "result" /\ inp.id = 3

\* C5: the request-id counter starts at 0 and every allocation returns the
\* counter plus one, so ids grow strictly and none is allocated twice on a
\* client object, also across close and a second connect.
IdsNeverReused ==
    [][ IF act' = "init"
        THEN idCounter' = 0 /\ allocated' = {}
        ELSE \/ idCounter' = idCounter /\ allocated' = allocated
             \/ /\ idCounter' = idCounter + 1
                /\ idCounter' \notin allocated
                /\ allocated' = allocated \cup {idCounter'}
                /\ \A i \in allocated : i < idCounter'
      ]_vars

IdsGrowAcrossReconnect ==
    /\ nsock = 2 /\ ws = 2 /\ authed /\ closed[1] = 1
    /\ idCounter = 4 /\ allocated = {1, 2, 3, 4}

\* C6: every socket a client object opens is closed exactly once on every path
\* of the request wrapper and of the event stream: never twice (also when the
\* cleanup close() follows the close() of a failed connect), and none is left
\* open when the request ends.
SocketLedgerOk ==
    /\ \A s \in 1..MaxSockets :
          /\ closed[s] <= 1
          /\ (s > nsock) => closed[s] = 0
          /\ (s <= nsock /\ s # ws) => closed[s] = 1
    /\ ws # 0 => (ws <= nsock /\ closed[ws] = 0)

SocketClosedExactlyOnce ==
    [][ /\ SocketLedgerOk'
        /\ (mode \in {"wrap", "gen"} /\ mode' = "none") =>
               (ws' = 0 /\ \A s \in 1..nsock' : closed'[s] = 1)
      ]_vars

CleanupAfterFailedConnect ==
    /\ mode = "none" /\ act = "close"
    /\ nsock = 1 /\ idCounter = 0 /\ closed[1] = 1 /\ ws = 0

\* C7: close() never raises, leaves the connection unconnected and
\* unauthenticated from every state (the close() of a failed connect
\* included), and changes nothing on a connection that is already closed.
CloseIdempotent ==
    [][ /\ (act' = "close") =>
               /\ res' = Res("close", "ok", "none", 0)
               /\ ws' = 0 /\ ~authed'
               /\ idCounter' = idCounter /\ nsock' = nsock
               /\ (ws = 0) => (closed' = closed)
               /\ (ws # 0) => (closed' = [closed EXCEPT ![ws] = @ + 1])
        /\ (res'.op = "connect" /\ res'.st = "err") => (ws' = 0 /\ ~authed')
      ]_vars

ClosedAfterAuthenticated ==
    /\ act = "close" /\ mode = "direct"
    /\ ws = 0 /\ ~authed /\ nsock = 1 /\ closed[1] = 1 /\ idCounter = 2

\* C8: connect fails when the frame read in reply to the handshake is not a
\* "connected" acknowledgement: it neither waits on nor authenticates.
HandshakeMismatchFails ==
    (act = "await_handshake" /\ inp.msg \notin {"none", "ping", "connected"}) =>
        (res.op = "connect" /\ res.st = "err")

\* C9: the connection becomes authenticated only by a login response without
\* error whose result is the boolean true; any other login response fails
\* connect, leaves the connection unauthenticated and closes its socket; with
\* no API key connect fails and the connection stays unconnected.
LoginOk(f) == f.error \in {"absent", "null"} /\ f.result = "true"
AuthOnlyOnTrue ==
    [][ /\ (authed' /\ ~authed) =>
               /\ act' = "await_login"
               /\ inp'.msg = "result" /\ inp'.id = expId /\ LoginOk(inp')
        /\ (act' = "await_login" /\ inp'.msg = "result" /\ inp'.id = expId
              /\ ~LoginOk(inp')) =>
               /\ res'.op = "connect" /\ res'.st = "err"
               /\ res'.val \in {"auth_error", "auth_rejected"}
               /\ ~authed' /\ ws' = 0
               /\ closed' = [closed EXCEPT ![ws] = 1]
        /\ (cfg.key = "") =>
               /\ ~authed' /\ ws' = 0
               /\ (act' = "connect") => res'.st = "err"
      ]_vars

AuthRejectedOnOne ==
    /\ act = "await_login" /\ inp.result = "int1" /\ inp.error = "absent"
    /\ res = Res("connect", "err", "auth_rejected", 0)
    /\ ~authed /\ ws = 0 /\ closed[1] = 1

\* C10: with the endpoint or the API key not configured, connect fails with
\* the configuration error, opens no socket and sends no frame.
UnconfiguredNeverConnects ==
    (cfg.url = "none" \/ cfg.key = "") =>
        /\ nsock = 0 /\ ws = 0 /\ out = <<>>
        /\ (act = "connect") => res = Res("connect", "err", "not_configured", 0)

UnconfiguredConnectRefused ==
    /\ cfg.url = "good" /\ cfg.key = ""
    /\ act = "connect" /\ res = Res("connect", "err", "not_configured", 0)
    /\ nsock = 0 /\ out = <<>>

\* the stream is inside its try block with its subscription sent
StreamSubscribed ==
    mode = "gen" /\ fpc \in {"g_getjob", "g_yield0", "g_recv", "g_yield"}

\* a frame the stream's filter lets through
JobEvent(f) == f.collection = "core.get_jobs" /\ f.fid = "job"

\* C11: on the stream's connection no request/response call runs between
\* subscribe and unsubscribe, so no frame is read by a call that waits for its
\* response there.
NoCallWhileSubscribed ==
    StreamSubscribed => act \notin {"call", "await_call"}

\* C12: once its connection is open the stream leaves its body only into the
\* cleanup, which attempts the unsubscribe for the stream's subscription id and
\* then closes the connection; the stream never ends with a socket held.
StreamBody == {"g_subscribe", "g_getjob", "g_yield0", "g_recv", "g_yield"}
StreamReleases ==
    [][ (mode = "gen") =>
          /\ (fpc \in StreamBody /\ fpc' \notin StreamBody) =>
                 (mode' = "gen" /\ fpc' = "g_unsub")
          /\ (fpc = "g_unsub" /\ fpc' # fpc) =>
                 /\ act' = "unsubscribe" /\ mode' = "gen" /\ fpc' = "g_close"
                 /\ ws' = ws /\ ws # 0
                 /\ out' # <<>> => out' = <<Sent("unsub", 0, "sub_id", "none", ws)>>
          /\ (fpc = "g_close" /\ fpc' # fpc) =>
                 (act' = "close" /\ mode' = "none" /\ ws' = 0)
          /\ (mode' = "none") =>
                 /\ ws' = 0 /\ \A s \in 1..nsock' : closed'[s] = 1
                 /\ \/ fpc = "g_close"
                    \/ fpc = "g_connect" /\ res'.op = "connect" /\ res'.st = "err"
      ]_vars

StreamUnsubscribedBeforeClose ==
    /\ mode = "gen" /\ fpc = "g_close" /\ act = "unsubscribe"
    /\ res.st = "ok" /\ out = <<Sent("unsub", 0, "sub_id", "none", ws)>>
    /\ ws # 0 /\ idCounter = 4

\* C13: after the stream has emitted a message with a terminal state, the
\* initial snapshot included, it reads no further frame: resumed, it goes
\* straight to its cleanup.
StopsAfterTerminalMessage ==
    [][ (mode = "gen" /\ fpc \in {"g_yield0", "g_yield"}
           /\ yielded.state \in TerminalStates /\ act' = "resume") =>
            fpc' = "g_unsub"
      ]_vars

\* C14: every frame read on the stream's connection while it is subscribed is
\* relayed as one message if and only if it is an event of the job collection
\* for the requested job.
EveryJobEventRelayed ==
    (StreamSubscribed /\ inp # NoFrame) =>
        (JobEvent(inp) <=>
            (fpc = "g_yield" /\ yielded = [id |-> inp.fid, state |-> inp.state]))

\* the names of the resolved path of t start with the names of the resolved
\* public root
UnderPublicRoot(links, t) ==
    LET r == RealSegs(links, <<>>, Split(DataRoot))
        q == RealSegs(links, <<>>, Split(t))
    IN  Len(q) >= Len(r) /\ SubSeq(q, 1, Len(r)) = r

\* the three conditions of a valid restore pair
RestorePairValid(links, s, d) ==
    /\ Contains(s, SnapMarkerSlash)
    /\ ~Contains(d, SnapMarker)
    /\ UnderPublicRoot(links, s) /\ UnderPublicRoot(links, d)

\* C15: validateRestore accepts a pair exactly when the source text contains
\* ".zfs/snapshot/", the destination text does not contain ".zfs/snapshot",
\* and the resolved source and destination are the resolved public root or
\* lie under it.
ValidateRestoreExact ==
    (pop = "validate") =>
        /\ (pres.why = "ok") <=> RestorePairValid(fs, pin.src, pin.dst)
        /\ (pres.why2 = "ok") <=> RestorePairValid(fs, pin.src, pin.dst)
        /\ (pres.st = "ok") <=> (pres.why = "ok")

SnapshotToLiveAccepted ==
    /\ pop = "validate" /\ fs = {}
    /\ pin.src = <<"/", "data", "/", "ds", "/", ".zfs", "/", "snapshot", "/", "s1", "/", "f">>
    /\ pin.dst = <<"/", "data", "/", "ds", "/", "f">>
    /\ pres.why = "ok" /\ pres.why2 = "ok"

\* C16: validateRestore rejects the source
\* "/data/ds/.zfs/snapshot/s1/../../../etc/passwd" with destination
\* "/data/ds/x": the source names the snapshot marker but climbs out of the
\* snapshot directory.
ClimbingSourceRejected ==
    (/\ pop = "validate"
     /\ pin.src = <<"/", "data", "/", "ds", "/", ".zfs", "/", "snapshot", "/", "s1",
                    "/", "..", "/", "..", "/", "..", "/", "etc", "/", "passwd">>
     /\ pin.dst = <<"/", "data", "/", "ds", "/", "x">>)
        => pres.why # "ok"

\* the paths app.restore_file validates for its arguments
HandlerSource(a) ==
    PathJoinAll(<<DataRoot, a.dataset, <<".zfs">>, <<"snapshot">>, a.snapshot, a.path>>)
HandlerDest(a) == PathJoinAll(<<DataRoot, a.dataset, a.path>>)

\* C17: restore fails closed: a filesystem.copy request is sent only for paths
\* that passed the validation of the handler and the checks of restorePath; a
\* rejected restore is answered with an error and sends nothing.
RestoreFailsClosed ==
    /\ (pop = "restore_file" /\ copy.sent) =>
           RestorePairValid(fs, HandlerSource(pin), HandlerDest(pin))
    /\ (pop = "restore_file" /\ pin.dataset # <<>> /\ pin.snapshot # <<>>
          /\ pin.path # <<>>
          /\ ~RestorePairValid(fs, HandlerSource(pin), HandlerDest(pin))) =>
           (pres.st = "bad_request" /\ ~copy.sent /\ pres.job = "none")
    /\ (pop \in {"restore_file", "restore_path"} /\ copy.sent) =>
           /\ Contains(host_to_container_path(copy.src), SnapMarkerSlash)
           /\ ~Contains(pres.t2, SnapMarker)
    /\ (pop = "restore_path" /\ Contains(pin.dst, SnapMarker)) =>
           (pres.st = "error" /\ ~copy.sent /\ pres.job = "none")
    /\ ~copy.sent => pres.job = "none"

RestoreRejectedBeforeCopy ==
    /\ pop = "restore_file" /\ pin.dataset = <<"link">> /\ pin.snapshot = <<"s1">>
    /\ pin.path = <<"f">> /\ fs # {}
    /\ pres.st = "bad_request" /\ pres.why = "outside_data" /\ ~copy.sent

\* C18: every filesystem.copy restorePath issues has a destination that
\* resolves inside the public root and names no ".zfs/snapshot".
CopyDestinationValidated ==
    (pop \in {"restore_file", "restore_path"} /\ copy.sent) =>
        (UnderPublicRoot(fs, pres.t2) /\ ~Contains(pres.t2, SnapMarker))

\* C19: the source of every filesystem.copy restorePath issues is the
\* directory "/mnt/<dataset>/.zfs/snapshot/<snapshot>" or lies inside it.
SnapshotDirOf(a) ==
    MntPrefix \o a.dataset \o <<"/", ".zfs", "/", "snapshot", "/">> \o a.snapshot
CopySourceInsideSnapshot ==
    (pop \in {"restore_file", "restore_path"} /\ copy.sent) =>
        \/ copy.src = SnapshotDirOf(pin)
        \/ StartsWith(copy.src, SnapshotDirOf(pin) \o <<"/">>)

\* C20: the path mapping round-trips: a backend path under "/mnt" is mapped to
\* the public namespace and back to itself, a public path under "/data" to the
\* backend namespace and back to itself.
UnderText(root, t) == t = root \/ StartsWith(t, root \o <<"/">>)
MappingRoundTrips ==
    (pop = "map") =>
        /\ UnderText(<<"/", "mnt">>, pin.src) => pres.t1 = pin.src
        /\ UnderText(<<"/", "data">>, pin.src) => pres.t2 = pin.src

BackendPathRoundTripped ==
    /\ pop = "map" /\ pin.src = <<"/", "mnt", "/", "ds", "/", "f">>
    /\ pres.why = "mapped" /\ pres.t1 = pin.src

JobAnswers == {"job_running", "job_success", "joblist1", "joblist0", "null"}
InitialMessageForEveryShape ==
    (mode = "gen" /\ act = "await_call" /\ res.st = "ok" /\ res.val \in JobAnswers)
        => (fpc = "g_yield0" /\ yielded.id = "job")

\* C22: after rollbackSnapshot(d, s) the next listSnapshots(d) asks the
\* backend again even inside the TTL window, while a listSnapshots(d) that
\* follows an earlier listSnapshots(d) within the TTL, with no rollback or
\* clone of d in between, reuses the cached result and asks nothing.
ListingReusedWithinTtl ==
    [][ (sop = "none" /\ sop' = "list_snapshots") =>
          LET last == listed[sin'.dataset] IN
          /\ last = NoTime => sout'.queries = 1
          /\ (last # NoTime /\ now - last < snapshot_ttl) => sout'.queries = 0
      ]_vars

\* C23: after a successful rollback of D, or clone from D into T, the next
\* read of snapshot data involving D or T (listSnapshots, or the annotations
\* of buildPoolTree) comes from a backend query made after the operation,
\* never from a listing cached before it.
InTree(datasets, d) == \E i \in 1..Len(datasets) : datasets[i].name = d
ReadsFreshAfterChange ==
    [][ /\ (sop = "none" /\ sop' = "list_snapshots") => sout'.queries = 1
        /\ (sop = "none" /\ sop' \in {"index", "build_pool_tree"}
              /\ \E d \in changed : InTree(sin'.datasets, d)) => sout'.queries = 1
      ]_vars

\* C24: the snapshot-listing cache entry goes absent -> populated(timestamp)
\* -> stale -> repopulated: a read that finds the entry absent or at least
\* the TTL (30 s) old makes exactly one backend snapshot query and stores its
\* result with the current time; a read that finds a younger entry is served
\* from it with no backend snapshot query; nothing else writes the entry.
CacheEntryLifecycle ==
    [][ LET e == snapshot_cache[AllKey]
            e2 == snapshot_cache'[AllKey]
            young == e.present /\ now - e.ts < 30
        IN  IF sop = "none" /\ sop' \in {"index", "build_pool_tree"}
            THEN /\ ~young =>
                      /\ sout'.queries = 1
                      /\ IF sout'.st = "listing_failed" THEN e2 = e
                         ELSE e2 = Entry(now, sout'.value[3])
                 /\ young =>
                      (sout'.queries = 0 /\ e2 = e /\ sout'.value[3] = e.snaps)
            ELSE e2 = e
      ]_vars

EntryRepopulated ==
    /\ sop = "index" /\ sout.found = "stale" /\ sout.queries = 1
    /\ now >= 30 /\ snapshot_cache[AllKey] = Entry(now, sout.value[3])
    /\ Len(sout.value[3]) = 5

\* the dataset entries of a tree, pool by pool
TreeEntries(tree) ==
    {<<p, j>> : p \in 1..Len(tree), j \in 1..MaxList + 1} \cap
    UNION {{<<p, j>> : j \in 1..Len(tree[p].datasets)} : p \in 1..Len(tree)}
EntryAt(tree, e) == tree[e[1]].datasets[e[2]]
\* p is the text of d before its first "/"
FirstSegment(p, d) ==
    /\ \A i \in 1..Len(p) : p[i] # "/"
    /\ \/ d = p
       \/ Len(d) > Len(p) /\ SubSeq(d, 1, Len(p) + 1) = p \o <<"/">>
\* every named dataset given is in the tree as often as it was given, under
\* the pool of its first segment, and nothing else is in the tree
GroupedByPool(tree, datasets) ==
    /\ \A d \in TreeNames \ {<<>>} :
          Cardinality({e \in TreeEntries(tree) : EntryAt(tree, e).name = d})
            = Cardinality({i \in 1..Len(datasets) : datasets[i].name = d})
    /\ \A e \in TreeEntries(tree) :
          /\ EntryAt(tree, e).name # <<>>
          /\ FirstSegment(tree[e[1]].name, EntryAt(tree, e).name)
    /\ \A p \in 1..Len(tree) : tree[p].datasets # <<>>

\* C25: the annotation of buildPoolTree is best-effort: when the bulk
\* snapshot listing or the computation of the annotations fails, the tree is
\* still returned, every named dataset in it, grouped by pool, with
\* snapshot_count 0 and latest_snapshot null.
AnnotationBestEffort ==
    (sop = "build_pool_tree" /\ sout.st \in {"listing_failed", "annotation_failed"}) =>
        /\ GroupedByPool(sout.value[1], sin.datasets)
        /\ \A e \in TreeEntries(sout.value[1]) :
              /\ EntryAt(sout.value[1], e).snapshot_count = 0
              /\ EntryAt(sout.value[1], e).latest_snapshot = "none"

AnnotationFailedMidway ==
    /\ sop = "build_pool_tree" /\ sout.st = "annotation_failed"
    /\ sin.datasets = << [name |-> DsAX], [name |-> DsB] >>
    /\ Len(sout.value[1]) = 2

\* C26: buildPoolTree places each dataset with a non-empty name exactly once,
\* under the pool that is the first "/"-separated segment of its name; the
\* datasets of a pool are sorted by name without regard to case, and the
\* pools are in sorted order.
SortedPools(tree) ==
    /\ \A p \in 1..Len(tree) - 1 : TextLess(tree[p].name, tree[p + 1].name)
    /\ \A p \in 1..Len(tree) : \A j \in 1..Len(tree[p].datasets) - 1 :
          ~TextLess(LowerText(tree[p].datasets[j + 1].name),
                    LowerText(tree[p].datasets[j].name))
PoolTreeGrouped ==
    (sop = "build_pool_tree") =>
        /\ GroupedByPool(sout.value[1], sin.datasets) /\ SortedPools(sout.value[1])
        /\ GroupedByPool(sout.value[2], sin.datasets) /\ SortedPools(sout.value[2])

TwoPoolsSorted ==
    /\ sop = "build_pool_tree"
    /\ sin.datasets = << [name |-> DsAY], [name |-> DsB], [name |-> DsAX] >>
    /\ Len(sout.value[1]) = 2
    /\ sout.value[1][1].name = <<"B">> /\ sout.value[1][2].name = <<"a">>
    /\ sout.value[1][2].datasets[1].name = DsAX
    /\ sout.value[1][2].datasets[2].name = DsAY

\* C27: when the annotation succeeds, buildPoolTree has made at most one bulk
\* snapshot listing, and every dataset has snapshot_count equal to the number
\* of snapshots of the listing whose dataset is its name, and latest_snapshot
\* the name of one with the greatest creation timestamp (a missing timestamp
\* is the oldest value), or null when it has no snapshot.
Age(snap) == IF snap.created_at.kind = "null" THEN 0 ELSE snap.created_at.t
SnapsOf(listing, d) == {i \in 1..Len(listing) : listing[i].dataset = d}
AnnotatedFromListing ==
    (sop = "build_pool_tree" /\ sout.st = "ok") =>
        /\ sout.queries <= 1
        /\ \A e \in TreeEntries(sout.value[1]) :
              LET ds == EntryAt(sout.value[1], e)
                  mine == SnapsOf(sout.value[3], ds.name)
              IN  /\ ds.snapshot_count = Cardinality(mine)
                  /\ mine = {} => ds.latest_snapshot = "none"
                  /\ mine # {} =>
                        \E i \in mine :
                            /\ sout.value[3][i].snapshot_name = ds.latest_snapshot
                            /\ \A k \in mine :
                                  Age(sout.value[3][k]) <= Age(sout.value[3][i])

LatestIsNewest ==
    /\ sop = "build_pool_tree" /\ sout.st = "ok" /\ sout.queries = 1
    /\ sin.datasets = << [name |-> DsAX] >>
    /\ sout.value[1][1].datasets[1].snapshot_count = 3
    /\ sout.value[1][1].datasets[1].latest_snapshot = "s3"

\* C28: snapshotDiff never returns a structure with a missing key: for every
\* backend result (null, empty, or an object with only some of the keys) the
\* value returned has the keys added, removed and modified; a null result
\* gives {added: [], removed: [], modified: []}.
DiffHasAllKeys ==
    (sop = "snapshot_diff") =>
        /\ sout.value[2].added # "absent"
        /\ sout.value[2].removed # "absent"
        /\ sout.value[2].modified # "absent"
        /\ sout.value[1].null => sout.value[2] = EmptyDiff

\* C30: sorting the snapshots of a dataset by creation timestamp, newest
\* first, puts every snapshot without a timestamp after every snapshot with
\* one, and the snapshots with a timestamp newest first.
NullsSortLast ==
    (sop = "dataset_view" /\ sout.st # "backend_error") =>
        /\ sout.st = "ok"
        /\ Len(sout.value[1]) = Len(sout.value[2])
        /\ \A i, j \in 1..Len(sout.value[1]) :
              i < j =>
                LET a == sout.value[1][i].created_at
                    b == sout.value[1][j].created_at
                IN  /\ a = Null => b = Null
                    /\ (a # Null /\ b # Null) => a.t >= b.t

\* C31: subscribe and unsubscribe are fire-and-forget: each sends exactly one
\* frame, whose id is a fresh request id, reads no frame and returns without
\* waiting for an acknowledgement.
SubFramesUseFreshId ==
    (act \in {"subscribe", "unsubscribe"} /\ res.st = "ok") =>
        /\ Len(out) = 1 /\ inp = NoFrame /\ cpc = "idle"
        /\ res.id = idCounter /\ res.id \in allocated
        /\ out[1].id = res.id

\* C32: whatever sequence of connect (succeeding, or failing at the socket,
\* the handshake or the login), call, subscribe, unsubscribe, recv and close
\* has run on a client, authenticated implies connected.
AuthedImpliesConnected == authed => ws # 0

AuthedOnSecondSocket ==
    /\ authed /\ ws = 2 /\ nsock = 2 /\ closed[1] = 1 /\ closed[2] = 0
    /\ act = "await_login" /\ res.op = "connect" /\ res.st = "ok"

\* C33: no request that changes the backend (zfs.snapshot.rollback,
\* zfs.snapshot.clone, filesystem.copy) is sent for a session whose role is
\* not admin: for a viewer or a session without a role the rollback, clone and
\* restore handlers answer before any middleware connection is opened, with a
\* redirect to the login page or with 403 (with 503 when the application has
\* no backend configured).
OnlyAdminMutates ==
    /\ (reply.sent \cap Mutating # {}) => session = "admin"
    /\ (route \in AdminRoutes /\ session # "admin") =>
           /\ reply.connects = 0 /\ reply.sent = {}
           /\ IF cfg.url = "none" \/ cfg.key = "" THEN reply.status = "config_error"
              ELSE IF session = "none" THEN reply.status = "redirect"
              ELSE reply.status = "forbidden"

ViewerRollbackForbidden ==
    /\ route = "rollback" /\ session = "viewer" /\ cfg = [url |-> "good", key |-> "k"]
    /\ reply = [status |-> "forbidden", connects |-> 0, sent |-> {}]

====
